---- MODULE Spec2Model ----
(***************************************************************************)
(* A model of the wahay Mumble client's certificate provisioning:          *)
(*   client/certificate.go  requestCertificate, storeCertificate,          *)
(*                          storeCertificateInDB, the temporary            *)
(*                          certificate generation and the @ByteArray      *)
(*                          encoder;                                       *)
(*   the client's configuration file (EnsureConfiguration,                 *)
(*                          writeConfigToFile, saveCertificateConfigFile). *)
(* Go strings and []byte values are sequences of bytes (0..255).           *)
(***************************************************************************)
EXTENDS Integers, Sequences, FiniteSets, TLC

VARIABLES
    bs,          \* codec: the input bytes
    result,      \* codec: the slice of fragments byteArrayUnparse builds
    text,        \* codec: the encoded literal
    decoded,     \* codec: what the literal decodes to
    cpc,         \* codec: "input", "encoded" or "decoded"
    pc,          \* per caller: where it is in its call on the client
    loc,         \* per caller: the arguments and local variables of its call
    mutex,       \* the client's lock: its holder, 0 when free
    dbFile,      \* the file .mumble.sqlite
    cfgFile,     \* the file mumble.ini
    configFile,  \* the field c.configFile: "" or the path of mumble.ini
    tmpDir,      \* per caller: the directory its ioutil.TempDir made
    lastStore,   \* history: the last storeCertificate that succeeded with no fault
    world        \* what the client's collaborators may supply, and whether I/O may fail

codecVars == <<bs, result, text, decoded, cpc>>
clientVars == <<pc, loc, mutex, dbFile, cfgFile, configFile, tmpDir, lastStore, world>>
vars == <<bs, result, text, decoded, cpc, pc, loc, mutex, dbFile, cfgFile,
          configFile, tmpDir, lastStore, world>>

(***************************************************************************)
(* Bytes and strings                                                       *)
(***************************************************************************)

\* The printable ASCII characters in code order: 32 (space) to 95 (_), and
\* 97 (a) to 126 (~). The grave accent, 96, is written as a number.
AsciiLow == " !\"#$%&'()*+,-./0123456789:;<=>?@ABCDEFGHIJKLMNOPQRSTUVWXYZ[\\]^_"
AsciiHigh == "abcdefghijklmnopqrstuvwxyz{|}~"

\* The code of a one-character string.
Ord(c) ==
    IF \E i \in 1..Len(AsciiLow) : SubSeq(AsciiLow, i, i) = c
    THEN 31 + CHOOSE i \in 1..Len(AsciiLow) : SubSeq(AsciiLow, i, i) = c
    ELSE 96 + CHOOSE i \in 1..Len(AsciiHigh) : SubSeq(AsciiHigh, i, i) = c

\* []byte(s): the bytes of a string.
Bytes(s) == [i \in 1..Len(s) |-> Ord(SubSeq(s, i, i))]

\* The set of the bytes of a string.
ByteSet(s) == {Ord(SubSeq(s, i, i)) : i \in 1..Len(s)}

\* Whether sub occurs in s at position i (s and sub both strings or both
\* byte sequences).
hasAt(s, sub, i) == i >= 1 /\ i + Len(sub) - 1 <= Len(s) /\ SubSeq(s, i, i + Len(sub) - 1) = sub

\* strings.Index / bytes.Index, 1-based: the first position of sub in s, 0 when
\* there is none.
stringsIndex(s, sub) ==
    LET at == {i \in 1..(Len(s) - Len(sub) + 1) : hasAt(s, sub, i)}
    IN  IF at = {} THEN 0 ELSE CHOOSE i \in at : \A j \in at : i <= j

\* strings.LastIndex, 1-based.
stringsLastIndex(s, sub) ==
    LET at == {i \in 1..(Len(s) - Len(sub) + 1) : hasAt(s, sub, i)}
    IN  IF at = {} THEN 0 ELSE CHOOSE i \in at : \A j \in at : i >= j

\* strings.Contains / bytes.Contains
stringsContains(s, sub) == stringsIndex(s, sub) # 0

\* strings.Replace(s, old, new, n) for a non-empty old: the first n
\* non-overlapping occurrences from the left, all of them when n < 0.
RECURSIVE stringsReplace(_, _, _, _)
stringsReplace(s, old, new, n) ==
    LET i == stringsIndex(s, old)
    IN  IF n = 0 \/ i = 0 THEN s
        ELSE SubSeq(s, 1, i - 1) \o new \o
             stringsReplace(SubSeq(s, i + Len(old), Len(s)), old, new, n - 1)

(***************************************************************************)
(* The @ByteArray encoder (QByteArray literals of Mumble's configuration)  *)
(***************************************************************************)

\* '0'..'9', 'a'..'f', 'A'..'F'
hexDigitBytes == ByteSet("0123456789") \cup ByteSet("abcdef") \cup ByteSet("ABCDEF")

byteArrayIsHex(b) == b \in hexDigitBytes

byteArrayPrefix == Bytes("@ByteArray(")
byteArraySuffix == Bytes(")")

byteArrayIsDigit(b) == b >= 48 /\ b <= 57

\* The punctuation allow-list of byteArrayIsPrintable (96 is the grave accent).
printablePunctuation == ByteSet("*+' ,;~{}([)]:.$|/&^=-%<>!#_@?") \cup {96}

byteArrayIsPrintable(b) ==
    \/ (b >= 97 /\ b <= 122)
    \/ (b >= 65 /\ b <= 90)
    \/ byteArrayIsDigit(b)
    \/ b \in printablePunctuation

\* '\t', '\r', '\a', '\b', '\v', '\f', '\n', 0, '"', '\\'
byteArrayIsSpecial(b) == b \in {9, 13, 7, 8, 11, 12, 10, 0, 34, 92}

\* The two-character escapes of byteArrayFormatSpecial, by byte.
specialEscapes ==
    (9 :> Bytes("\\t")) @@ (13 :> Bytes("\\r")) @@ (7 :> Bytes("\\a")) @@
    (8 :> Bytes("\\b")) @@ (11 :> Bytes("\\v")) @@ (12 :> Bytes("\\f")) @@
    (10 :> Bytes("\\n")) @@ (0 :> Bytes("\\0")) @@ (34 :> Bytes("\\\"")) @@
    (92 :> Bytes("\\\\"))

\* A formatter whose NUL escape does not report "hex before".
MutFormatSpecialNulClears(b) ==
    IF b \in DOMAIN specialEscapes THEN <<specialEscapes[b], FALSE>>
    ELSE <<(<<>>), FALSE>>

\* Only the NUL escape reports "hex before" (the second component).
byteArrayFormatSpecial(b) ==
    IF b \in DOMAIN specialEscapes THEN <<specialEscapes[b], b = 0>>
    ELSE <<(<<>>), FALSE>>

\* hex.EncodeToString([]byte{b}): two lower-case hexadecimal digits.
hextable == Bytes("0123456789abcdef")
hexEncodeToString(b) == <<hextable[(b \div 16) + 1], hextable[(b % 16) + 1]>>

backslashX == Bytes("\\x")

byteArrayFormatEscaped(b) ==
    LET out == hexEncodeToString(b)
    IN  IF out[1] = 48
        THEN <<backslashX \o SubSeq(out, 2, 2), TRUE>>
        ELSE <<backslashX \o out, TRUE>>

\* An encoder without the carried "previous byte was hex-escaped" state.
MutUnparseByteNoCarry(b, previousHexBefore) ==
    IF byteArrayIsPrintable(b) THEN <<(<<b>>), FALSE>>
    ELSE IF byteArrayIsSpecial(b) THEN byteArrayFormatSpecial(b)
    ELSE byteArrayFormatEscaped(b)

byteArrayUnparseByte(b, previousHexBefore) ==
    IF byteArrayIsHex(b) /\ previousHexBefore THEN byteArrayFormatEscaped(b)
    ELSE IF byteArrayIsPrintable(b) THEN <<(<<b>>), FALSE>>
    ELSE IF byteArrayIsSpecial(b) THEN byteArrayFormatSpecial(b)
    ELSE byteArrayFormatEscaped(b)

\* The loop of byteArrayUnparse: the slice `result` after the bytes from i on.
RECURSIVE unparseLoop(_, _, _, _)
unparseLoop(input, i, res, hexBefore) ==
    IF i > Len(input) THEN res
    ELSE LET r == byteArrayUnparseByte(input[i], hexBefore)
         IN  unparseLoop(input, i + 1, Append(res, r[1]), r[2])

\* The slice `result` of byteArrayUnparse before strings.Join.
unparseResult(input) ==
    Append(unparseLoop(input, 1, <<byteArrayPrefix>>, FALSE), byteArraySuffix)

\* strings.Join(elems, "")
RECURSIVE stringsJoin(_)
stringsJoin(elems) ==
    IF elems = <<>> THEN <<>> ELSE Head(elems) \o stringsJoin(Tail(elems))

byteArrayUnparse(input) == stringsJoin(unparseResult(input))

(***************************************************************************)
(* The decoder of @ByteArray literals (the inverse the specification       *)
(* describes; the repository has no decoder)                               *)
(***************************************************************************)

\* What a malformed literal decodes to: no byte sequence.
parseError == <<-1>>

\* The value of a hexadecimal digit character.
hexValue(c) ==
    IF c >= 48 /\ c <= 57 THEN c - 48
    ELSE IF c >= 97 /\ c <= 102 THEN c - 87
    ELSE c - 55

\* The byte a named two-character escape stands for, by its second character.
namedEscapes ==
    (116 :> 9) @@ (114 :> 13) @@ (97 :> 7) @@ (98 :> 8) @@ (118 :> 11) @@
    (102 :> 12) @@ (110 :> 10) @@ (48 :> 0) @@ (34 :> 34) @@ (92 :> 92)

\* The scan of the literal's body from position i, left to right: a literal
\* character, a named escape, or \x followed by one or two hexadecimal digits
\* (two when two are there).
RECURSIVE parseScan(_, _, _)
parseScan(body, i, acc) ==
    IF i > Len(body) THEN acc
    ELSE IF body[i] # 92 THEN parseScan(body, i + 1, Append(acc, body[i]))
    ELSE IF i + 1 > Len(body) THEN parseError
    ELSE IF body[i + 1] = 120
         THEN IF i + 2 <= Len(body) /\ byteArrayIsHex(body[i + 2])
              THEN IF i + 3 <= Len(body) /\ byteArrayIsHex(body[i + 3])
                   THEN parseScan(body, i + 4,
                            Append(acc, 16 * hexValue(body[i + 2]) + hexValue(body[i + 3])))
                   ELSE parseScan(body, i + 3, Append(acc, hexValue(body[i + 2])))
              ELSE parseError
    ELSE IF body[i + 1] \in DOMAIN namedEscapes
         THEN parseScan(body, i + 2, Append(acc, namedEscapes[body[i + 1]]))
    ELSE parseError

byteArrayParse(t) ==
    LET np == Len(byteArrayPrefix)
        ns == Len(byteArraySuffix)
    IN  IF /\ Len(t) >= np + ns
           /\ SubSeq(t, 1, np) = byteArrayPrefix
           /\ SubSeq(t, Len(t) - ns + 1, Len(t)) = byteArraySuffix
        THEN parseScan(SubSeq(t, np + 1, Len(t) - ns), 1, <<>>)
        ELSE parseError

(***************************************************************************)
(* Address parsing, the fetched certificate and its digest                 *)
(***************************************************************************)

\* u.Host of url.Parse(address): what lies between "://" and the next "/";
\* empty when the address has no scheme separator.
urlHost(address) ==
    LET i == stringsIndex(address, "://")
        rest == SubSeq(address, i + 3, Len(address))
        j == stringsIndex(rest, "/")
    IN  IF i = 0 THEN ""
        ELSE IF j = 0 THEN rest ELSE SubSeq(rest, 1, j - 1)

\* net.SplitHostPort: the host and the port around the last colon; an error
\* when there is no colon.
netSplitHostPort(hostport) ==
    LET i == stringsLastIndex(hostport, ":")
    IN  IF i = 0 THEN [err |-> TRUE, host |-> "", port |-> ""]
        ELSE [err |-> FALSE,
              host |-> SubSeq(hostport, 1, i - 1),
              port |-> SubSeq(hostport, i + 1, Len(hostport))]

extractHostAndPort(address) == netSplitHostPort(urlHost(address))

\* strconv.Atoi with its error dropped (p, _ := strconv.Atoi(port)): the
\* decimal value, 0 when the string is empty or has a character that is no digit.
RECURSIVE decimalValue(_, _)
decimalValue(digits, acc) ==
    IF digits = <<>> THEN acc
    ELSE decimalValue(Tail(digits), 10 * acc + (Head(digits) - 48))

strconvAtoi(str) ==
    LET d == Bytes(str)
    IN  IF d = <<>> \/ \E k \in 1..Len(d) : d[k] < 48 \/ d[k] > 57 THEN 0
        ELSE decimalValue(d, 0)

\* uint16(port)
uint16(n) == n % 65536

\* A response body: whether a PEM block decodes from it, the block's type and
\* the block's bytes.
NoBody == [pem |-> FALSE, type |-> "", der |-> <<>>]
pemCertificate == [pem |-> TRUE, type |-> "CERTIFICATE", der |-> <<48, 130, 1>>]
pemPrivateKey == [pem |-> TRUE, type |-> "RSA PRIVATE KEY", der |-> <<48, 130, 2>>]
Bodies == {pemCertificate, pemPrivateKey, NoBody}

\* block == nil || block.Type != "CERTIFICATE"
isInvalidCertificate(body) == ~body.pem \/ body.type # "CERTIFICATE"

\* fmt.Sprintf("%x", sha1(der)): 40 lower-case hexadecimal characters, a fixed
\* function of the bytes.
digestForCertificate(der) ==
    IF der = <<48, 130, 1>> THEN Bytes("3f786850e387550fdab836ed7e6dc881de23001b")
    ELSE Bytes("da39a3ee5e6b4b0d3255bfef95601890afd80709")

(***************************************************************************)
(* The Mumble sqlite database, patched as a byte sequence                  *)
(***************************************************************************)

defaultHostToReplace == Bytes("ffaaffaabbddaabbddeeaaddccaaffeebbaabbeeddeeaaddbbeeeeff.onion")
defaultPortToReplace == 64738
defaultDigestToReplace == Bytes("AAABACADAFBABBBCBDBEBFCACBCCCDCECFDADBDC")

\* A 2-byte integer, most significant byte first.
uint16Bytes(n) == <<(n \div 256) % 256, n % 256>>

\* db.replaceString: every occurrence.
dbReplaceString(content, find, replace) == stringsReplace(content, find, replace, -1)

\* db.replaceInteger: every occurrence of the 2-byte encoding.
dbReplaceInteger(content, find, replace) ==
    stringsReplace(content, uint16Bytes(find), uint16Bytes(replace), -1)

\* db.exists: a substring scan.
dbExists(content, k) == stringsContains(content, k)

\* The three replacements of storeCertificateInDB on the loaded content.
patchedContent(content, id, port, digest) ==
    dbReplaceInteger(
        dbReplaceString(
            dbReplaceString(content, defaultHostToReplace, id),
            defaultDigestToReplace, digest),
        uint16(defaultPortToReplace), uint16(port))

(***************************************************************************)
(* Files                                                                   *)
(***************************************************************************)

NoFile == [exists |-> FALSE, data |-> <<>>]
File(d) == [exists |-> TRUE, data |-> d]

\* createFile: the file exists afterwards; an existing file keeps its content.
createFile(f) == IF f.exists THEN f ELSE File(<<>>)

\* ioutil.WriteFile(name, data, perm): open with O_WRONLY|O_CREATE|O_TRUNC,
\* write, close. The outcomes: written; the open failed (the file is as it
\* was); the write failed after the truncation (nothing, or only the first
\* half, of data is in the file).
ioutilWriteFile(old, data) ==
    IF world.faults
    THEN { [file |-> File(data), err |-> "nil"],
           [file |-> old, err |-> "open"],
           [file |-> File(<<>>), err |-> "write"],
           [file |-> File(SubSeq(data, 1, Len(data) \div 2)), err |-> "write"] }
    ELSE { [file |-> File(data), err |-> "nil"] }

\* A write that replaces the whole content or leaves the file as it was
\* (config.SafeWrite, db.write).
atomicWrite(old, data) ==
    IF world.faults
    THEN { [file |-> File(data), err |-> "nil"],
           [file |-> old, err |-> "write"] }
    ELSE { [file |-> File(data), err |-> "nil"] }

\* ioutil.ReadFile
ioutilReadFile(f) ==
    IF ~f.exists THEN {[data |-> <<>>, err |-> "read"]}
    ELSE IF world.faults
         THEN {[data |-> f.data, err |-> "nil"], [data |-> <<>>, err |-> "read"]}
         ELSE {[data |-> f.data, err |-> "nil"]}

\* c.db(): the database loaded from its file, or an error.
dbLoad(f) == ioutilReadFile(f)

\* Whether a step that touches the file system succeeds.
Oks == IF world.faults THEN BOOLEAN ELSE {TRUE}

(***************************************************************************)
(* The configuration file                                                  *)
(***************************************************************************)

certificateToken == Bytes("#CERTIFICATE")
certificateKey == Bytes("certificate=")

\* An injection that replaces every occurrence.
MutInjectEveryOccurrence(content, cert) ==
    stringsReplace(content, certificateToken, certificateKey \o cert, -1)

\* strings.Replace(content, "#CERTIFICATE", fmt.Sprintf("certificate=%s", cert), 1)
injectCertificate(content, cert) ==
    stringsReplace(content, certificateToken, certificateKey \o cert, 1)

(***************************************************************************)
(* The temporary directory of generateTemporaryMumbleCertificate           *)
(***************************************************************************)

NoDir == [exists |-> FALSE, files |-> {}]

\* A clean-up that removes only an empty directory (os.Remove).
MutRemoveEmptyOnly(dir) == IF dir.files = {} THEN NoDir ELSE dir

\* defer os.RemoveAll(dir)
osRemoveAll(dir) == NoDir

(***************************************************************************)
(* The control flow of requestCertificate                                  *)
(***************************************************************************)

\* A flow that goes on to the configuration file after a failed store.
MutIgnoreStoreError(step, err) ==
    IF err # "nil" /\ step # "store" THEN "rc_done"
    ELSE CASE step = "parse" -> "rc_fetch"
           [] step = "fetch" -> "st_exists"
           [] step = "store" -> "sv_check"
           [] OTHER -> "rc_done"

\* Where requestCertificate goes after a step that ended with err: back to
\* the caller on an error, to the next step otherwise.
requestCertificateFlow(step, err) ==
    IF err # "nil" THEN "rc_done"
    ELSE CASE step = "parse" -> "rc_fetch"
           [] step = "fetch" -> "st_exists"
           [] step = "store" -> "sv_check"
           [] OTHER -> "rc_done"

(***************************************************************************)
(* The codec as a state machine: an input is encoded, the text is decoded  *)
(***************************************************************************)

\* The longest input over RepBytes.
MaxLen == 3

Byte == 0..255

\* One byte of each kind the encoder tells apart: NUL, a byte with a one-digit
\* escape (1), a named escape (7, "\a"), a byte with a two-digit escape (0xAB),
\* the hexadecimal digits '1' and 'a', the letter 'x', the backslash and ')'.
RepBytes == {0, 1, 7, 171, 49, 97, 120, 92, 41}

RECURSIVE SeqsUpTo(_, _)
SeqsUpTo(S, n) ==
    IF n = 0 THEN {<<>>}
    ELSE LET shorter == SeqsUpTo(S, n - 1)
         IN  shorter \cup {Append(q, x) : q \in shorter, x \in S}

\* Every one- and two-byte input over all 256 byte values (the encoder carries
\* one bit from a byte to the next), and the longer inputs over RepBytes.
CodecInputs ==
    {<<a>> : a \in Byte} \cup {<<a, b>> : a \in Byte, b \in Byte}
        \cup SeqsUpTo(RepBytes, MaxLen)

Callers == {1, 2}

\* The local variables of a caller with no call in progress.
NoCall ==
    [op |-> "none", address |-> "", hostname |-> <<>>, portStr |-> "", port |-> 0,
     body |-> NoBody, digest |-> <<>>, dbLoaded |-> <<>>, db |-> <<>>, cert |-> <<>>,
     content |-> <<>>, data |-> <<>>, ret |-> <<>>, err |-> "nil", storeErr |-> "nil",
     trace |-> <<>>, failedAt |-> "none", fault |-> FALSE, patched |-> FALSE,
     dbAtCall |-> NoFile, cfgAtCall |-> NoFile, cfgAtSave |-> NoFile]

NoStore == [valid |-> FALSE, hostname |-> <<>>, port |-> 0, db |-> NoFile]

\* The codec on its own: an input to encode; the client is not called.
InitCodec ==
    /\ bs \in CodecInputs
    /\ result = <<>>
    /\ text = <<>>
    /\ decoded = <<>>
    /\ cpc = "input"
    /\ pc = [p \in Callers |-> "idle"]
    /\ loc = [p \in Callers |-> NoCall]
    /\ mutex = 0
    /\ dbFile = NoFile
    /\ cfgFile = NoFile
    /\ configFile = ""
    /\ tmpDir = [p \in Callers |-> NoDir]
    /\ lastStore = NoStore
    /\ world = [faults |-> FALSE]

\* byteArrayUnparse(bs): the slice of fragments, then their concatenation.
Unparse ==
    /\ cpc = "input"
    /\ result' = unparseResult(bs)
    /\ text' = byteArrayUnparse(bs)
    /\ cpc' = "encoded"
    /\ UNCHANGED <<bs, decoded>>
    /\ UNCHANGED clientVars

\* Decoding of the encoded text.
Parse ==
    /\ cpc = "encoded"
    /\ decoded' = byteArrayParse(text)
    /\ cpc' = "decoded"
    /\ UNCHANGED <<bs, result, text>>
    /\ UNCHANGED clientVars

NextCodec == Unparse \/ Parse

SpecCodec == InitCodec /\ [][NextCodec]_vars

(***************************************************************************)
(* The client: what its collaborators may hand it                          *)
(***************************************************************************)

\* The addresses a caller passes to requestCertificate.
Addresses ==
    {"http://aa.onion:64738", "http://bb.onion:58082", "not a url", "http://cc.onion/x"}

\* c.tor.HTTPrequest: a transport error, or a response body.
HTTPrequest ==
    {[err |-> "transport", body |-> NoBody]} \cup {[err |-> "nil", body |-> b] : b \in Bodies}

\* c.databaseProvider(): the database template with the three placeholders, a
\* database with the host placeholder only, and a foreign database with none
\* of the placeholder strings.
dbTemplate ==
    <<83, 81>> \o defaultHostToReplace \o <<0>> \o uint16Bytes(defaultPortToReplace)
        \o defaultDigestToReplace \o <<0>>
dbHostOnly == <<83, 81>> \o defaultHostToReplace \o <<0>>
dbForeign == <<252, 252, 226, 0>>
databaseProvider == {dbTemplate, dbHostOnly, dbForeign}

\* c.configContentProvider(): configurations with no, one and two tokens.
configContentProvider ==
    { Bytes("[net];"),
      Bytes("[net];#CERTIFICATE;"),
      Bytes("#CERT;#CERTIFICATE;#CERTIFICATE") }

\* The PKCS12 files the external tool writes.
P12Data == {<<>>, <<171, 49>>}

\* The literals passed to saveCertificateConfigFile.
CertLiterals == {byteArrayUnparse(d) : d \in P12Data}

\* Every input above, and I/O that may fail.
FullWorld ==
    [addresses |-> Addresses, responses |-> HTTPrequest, databases |-> databaseProvider,
     configs |-> configContentProvider, certs |-> CertLiterals, faults |-> TRUE]

\* One host with a valid certificate, the database template, a configuration
\* with one token, and I/O that does not fail.
QuietWorld ==
    [addresses |-> {"http://bb.onion:58082"},
     responses |-> {[err |-> "nil", body |-> pemCertificate]},
     databases |-> {dbTemplate},
     configs |-> {Bytes("[net];#CERTIFICATE;")},
     certs |-> {byteArrayUnparse(<<171, 49>>)},
     faults |-> FALSE]

(***************************************************************************)
(* EnsureConfiguration                                                     *)
(***************************************************************************)

CallEnsure(p) ==
    /\ pc[p] = "idle"
    /\ pc' = [pc EXCEPT ![p] = "ec_lock"]
    /\ loc' = [loc EXCEPT ![p].op = "ensure"]
    /\ UNCHANGED <<mutex, dbFile, cfgFile, configFile, tmpDir, lastStore, world>>
    /\ UNCHANGED codecVars

\* c.Lock()
EcLock(p) ==
    /\ pc[p] = "ec_lock"
    /\ mutex = 0
    /\ mutex' = p
    /\ pc' = [pc EXCEPT ![p] = "ec_dirs"]
    /\ UNCHANGED <<loc, dbFile, cfgFile, configFile, tmpDir, lastStore, world>>
    /\ UNCHANGED codecVars

\* createDir(binaryDir), and the Mumble folders, whose errors are only logged.
EcDirs(p) ==
    /\ pc[p] = "ec_dirs"
    /\ \E ok \in Oks :
        /\ pc' = [pc EXCEPT ![p] = IF ok THEN "ec_writedb" ELSE "ec_unlock"]
        /\ loc' = [loc EXCEPT ![p].err = IF ok THEN "nil" ELSE "errInvalidConfigDirectory"]
    /\ UNCHANGED <<mutex, dbFile, cfgFile, configFile, tmpDir, lastStore, world>>
    /\ UNCHANGED codecVars

\* createFile of the data file (its error is only logged), then
\* ioutil.WriteFile of c.databaseProvider().
EcWriteDB(p) ==
    /\ pc[p] = "ec_writedb"
    /\ \E t \in world.databases, base \in {dbFile, createFile(dbFile)} :
        \E o \in ioutilWriteFile(base, t) :
            /\ dbFile' = o.file
            /\ pc' = [pc EXCEPT ![p] = IF o.err = "nil" THEN "ec_createcfg" ELSE "ec_unlock"]
            /\ loc' = [loc EXCEPT ![p].err = o.err]
    /\ lastStore' = NoStore
    /\ UNCHANGED <<mutex, cfgFile, configFile, tmpDir, world>>
    /\ UNCHANGED codecVars

\* createFile(filename)
EcCreateCfg(p) ==
    /\ pc[p] = "ec_createcfg"
    /\ \E ok \in Oks :
        /\ cfgFile' = IF ok THEN createFile(cfgFile) ELSE cfgFile
        /\ pc' = [pc EXCEPT ![p] = IF ok THEN "ec_writecfg" ELSE "ec_unlock"]
        /\ loc' = [loc EXCEPT ![p].err = IF ok THEN "nil" ELSE "errInvalidDataFile"]
    /\ UNCHANGED <<mutex, dbFile, configFile, tmpDir, lastStore, world>>
    /\ UNCHANGED codecVars

\* writeConfigToFile: the file c.configFile names is removed, the file is
\* created again and written with config.SafeWrite; c.configFile is set when
\* the write succeeded. Any error comes back as errInvalidConfig.
EcWriteCfg(p) ==
    /\ pc[p] = "ec_writecfg"
    /\ LET removed == IF configFile # "" /\ cfgFile.exists THEN NoFile ELSE cfgFile
       IN  \/ /\ ~removed.exists
              /\ cfgFile' = removed
              /\ configFile' = configFile
              /\ loc' = [loc EXCEPT ![p].err = "errInvalidConfig"]
           \/ \E content \in world.configs :
                \E o \in atomicWrite(createFile(removed), content) :
                    /\ cfgFile' = o.file
                    /\ configFile' = IF o.err = "nil" THEN "mumble.ini" ELSE configFile
                    /\ loc' = [loc EXCEPT ![p].err =
                                   IF o.err = "nil" THEN "nil" ELSE "errInvalidConfig"]
    /\ pc' = [pc EXCEPT ![p] = "ec_unlock"]
    /\ UNCHANGED <<mutex, dbFile, tmpDir, lastStore, world>>
    /\ UNCHANGED codecVars

\* defer c.Unlock(), and the return to the caller.
EcUnlock(p) ==
    /\ pc[p] = "ec_unlock"
    /\ mutex' = 0
    /\ pc' = [pc EXCEPT ![p] = "idle"]
    /\ loc' = [loc EXCEPT ![p] = NoCall]
    /\ UNCHANGED <<dbFile, cfgFile, configFile, tmpDir, lastStore, world>>
    /\ UNCHANGED codecVars

(***************************************************************************)
(* requestCertificate, storeCertificate, storeCertificateInDB              *)
(***************************************************************************)

\* A call of requestCertificate(address); c is the literal its last step
\* hands to saveCertificateConfigFile.
CallRequest(p) ==
    /\ pc[p] = "idle"
    /\ \E a \in world.addresses, c \in world.certs :
        loc' = [loc EXCEPT ![p].op = "request", ![p].address = a, ![p].cert = c,
                           ![p].dbAtCall = dbFile, ![p].cfgAtCall = cfgFile]
    /\ pc' = [pc EXCEPT ![p] = "rc_parse"]
    /\ UNCHANGED <<mutex, dbFile, cfgFile, configFile, tmpDir, lastStore, world>>
    /\ UNCHANGED codecVars

\* extractHostAndPort(address)
RcParse(p) ==
    /\ pc[p] = "rc_parse"
    /\ LET r == extractHostAndPort(loc[p].address)
           err == IF r.err THEN "invalid certificate url" ELSE "nil"
       IN  /\ loc' = [loc EXCEPT ![p].hostname = Bytes(r.host), ![p].portStr = r.port,
                                 ![p].err = err, ![p].trace = Append(@, "parse"),
                                 ![p].failedAt = IF err # "nil" THEN "parse" ELSE @]
           /\ pc' = [pc EXCEPT ![p] = requestCertificateFlow("parse", err)]
    /\ UNCHANGED <<mutex, dbFile, cfgFile, configFile, tmpDir, lastStore, world>>
    /\ UNCHANGED codecVars

\* c.tor.HTTPrequest(u.String()), then p, _ := strconv.Atoi(port)
RcFetch(p) ==
    /\ pc[p] = "rc_fetch"
    /\ \E o \in world.responses :
        /\ loc' = [loc EXCEPT ![p].body = o.body, ![p].err = o.err,
                              ![p].port = strconvAtoi(loc[p].portStr),
                              ![p].trace = Append(@, "fetch"),
                              ![p].failedAt = IF o.err # "nil" THEN "fetch" ELSE @]
        /\ pc' = [pc EXCEPT ![p] = requestCertificateFlow("fetch", o.err)]
    /\ UNCHANGED <<mutex, dbFile, cfgFile, configFile, tmpDir, lastStore, world>>
    /\ UNCHANGED codecVars

\* storeCertificate begins: isTheCertificateInDB(hostname) loads the database
\* and scans it; a database that cannot be loaded counts as "not in it".
StExists(p) ==
    /\ pc[p] = "st_exists"
    /\ \E d \in dbLoad(dbFile) :
        LET found == d.err = "nil" /\ dbExists(d.data, loc[p].hostname)
        IN  /\ loc' = [loc EXCEPT ![p].storeErr = "nil",
                                  ![p].fault = (dbFile.exists /\ d.err # "nil"),
                                  ![p].trace = Append(@, "store")]
            /\ pc' = [pc EXCEPT ![p] = IF found THEN "st_done" ELSE "st_decode"]
    /\ UNCHANGED <<mutex, dbFile, cfgFile, configFile, tmpDir, lastStore, world>>
    /\ UNCHANGED codecVars

\* pem.Decode(cert), the check of the block, digestForCertificate(block.Bytes)
StDecode(p) ==
    /\ pc[p] = "st_decode"
    /\ IF isInvalidCertificate(loc[p].body)
       THEN /\ loc' = [loc EXCEPT ![p].storeErr = "invalid certificate"]
            /\ pc' = [pc EXCEPT ![p] = "st_done"]
       ELSE /\ loc' = [loc EXCEPT ![p].digest = digestForCertificate(loc[p].body.der)]
            /\ pc' = [pc EXCEPT ![p] = "st_load"]
    /\ UNCHANGED <<mutex, dbFile, cfgFile, configFile, tmpDir, lastStore, world>>
    /\ UNCHANGED codecVars

\* storeCertificateInDB: c.db(), then the three replacements on the loaded
\* content.
StLoad(p) ==
    /\ pc[p] = "st_load"
    /\ \E d \in dbLoad(dbFile) :
        IF d.err # "nil"
        THEN /\ loc' = [loc EXCEPT ![p].storeErr = d.err,
                                   ![p].fault = (@ \/ dbFile.exists)]
             /\ pc' = [pc EXCEPT ![p] = "st_done"]
        ELSE /\ loc' = [loc EXCEPT ![p].dbLoaded = d.data,
                                   ![p].db = patchedContent(d.data, loc[p].hostname,
                                                            loc[p].port, loc[p].digest)]
             /\ pc' = [pc EXCEPT ![p] = "st_write"]
    /\ UNCHANGED <<mutex, dbFile, cfgFile, configFile, tmpDir, lastStore, world>>
    /\ UNCHANGED codecVars

\* return db.write()
StWrite(p) ==
    /\ pc[p] = "st_write"
    /\ \E o \in atomicWrite(dbFile, loc[p].db) :
        /\ dbFile' = o.file
        /\ loc' = [loc EXCEPT ![p].storeErr = o.err, ![p].patched = TRUE,
                              ![p].fault = (@ \/ o.err # "nil")]
    /\ pc' = [pc EXCEPT ![p] = "st_done"]
    /\ UNCHANGED <<mutex, cfgFile, configFile, tmpDir, lastStore, world>>
    /\ UNCHANGED codecVars

\* storeCertificate has returned storeErr to requestCertificate.
StDone(p) ==
    /\ pc[p] = "st_done"
    /\ pc' = [pc EXCEPT ![p] = requestCertificateFlow("store", loc[p].storeErr)]
    /\ loc' = [loc EXCEPT ![p].err = loc[p].storeErr,
                          ![p].failedAt = IF loc[p].storeErr # "nil" THEN "store" ELSE @]
    /\ lastStore' =
          IF loc[p].storeErr = "nil" /\ ~loc[p].fault
          THEN [valid |-> TRUE, hostname |-> loc[p].hostname, port |-> loc[p].port,
                db |-> dbFile]
          ELSE NoStore
    /\ UNCHANGED <<mutex, dbFile, cfgFile, configFile, tmpDir, world>>
    /\ UNCHANGED codecVars

\* requestCertificate returns err to its caller.
RcDone(p) ==
    /\ pc[p] = "rc_done"
    /\ pc' = [pc EXCEPT ![p] = "idle"]
    /\ loc' = [loc EXCEPT ![p] = NoCall]
    /\ UNCHANGED <<mutex, dbFile, cfgFile, configFile, tmpDir, lastStore, world>>
    /\ UNCHANGED codecVars

(***************************************************************************)
(* saveCertificateConfigFile                                               *)
(***************************************************************************)

CallSave(p) ==
    /\ pc[p] = "idle"
    /\ \E c \in world.certs :
        loc' = [loc EXCEPT ![p].op = "save", ![p].cert = c,
                           ![p].dbAtCall = dbFile, ![p].cfgAtCall = cfgFile]
    /\ pc' = [pc EXCEPT ![p] = "sv_check"]
    /\ UNCHANGED <<mutex, dbFile, cfgFile, configFile, tmpDir, lastStore, world>>
    /\ UNCHANGED codecVars

\* len(c.configFile) == 0 || !fileExists(c.configFile)
SvCheck(p) ==
    /\ pc[p] = "sv_check"
    /\ IF configFile = "" \/ ~cfgFile.exists
       THEN /\ loc' = [loc EXCEPT ![p].err = "invalid mumble.ini file",
                                  ![p].cfgAtSave = cfgFile,
                                  ![p].trace = Append(@, "inject")]
            /\ pc' = [pc EXCEPT ![p] = "sv_done"]
       ELSE /\ loc' = [loc EXCEPT ![p].cfgAtSave = cfgFile,
                                  ![p].trace = Append(@, "inject")]
            /\ pc' = [pc EXCEPT ![p] = "sv_read"]
    /\ UNCHANGED <<mutex, dbFile, cfgFile, configFile, tmpDir, lastStore, world>>
    /\ UNCHANGED codecVars

\* ioutil.ReadFile(c.configFile)
SvRead(p) ==
    /\ pc[p] = "sv_read"
    /\ \E r \in ioutilReadFile(cfgFile) :
        /\ loc' = [loc EXCEPT ![p].content = r.data, ![p].err = r.err]
        /\ pc' = [pc EXCEPT ![p] = IF r.err = "nil" THEN "sv_write" ELSE "sv_done"]
    /\ UNCHANGED <<mutex, dbFile, cfgFile, configFile, tmpDir, lastStore, world>>
    /\ UNCHANGED codecVars

\* strings.Replace, then ioutil.WriteFile(c.configFile, ..., 0644)
SvWrite(p) ==
    /\ pc[p] = "sv_write"
    /\ \E o \in ioutilWriteFile(cfgFile, injectCertificate(loc[p].content, loc[p].cert)) :
        /\ cfgFile' = o.file
        /\ loc' = [loc EXCEPT ![p].err = o.err]
    /\ pc' = [pc EXCEPT ![p] = "sv_done"]
    /\ UNCHANGED <<mutex, dbFile, configFile, tmpDir, lastStore, world>>
    /\ UNCHANGED codecVars

\* saveCertificateConfigFile has returned err: to requestCertificate, which
\* returns it, or to the caller.
SvDone(p) ==
    /\ pc[p] = "sv_done"
    /\ IF loc[p].op = "request"
       THEN /\ pc' = [pc EXCEPT ![p] = requestCertificateFlow("inject", loc[p].err)]
            /\ loc' = [loc EXCEPT ![p].failedAt = IF loc[p].err # "nil" THEN "inject" ELSE @]
       ELSE /\ pc' = [pc EXCEPT ![p] = "idle"]
            /\ loc' = [loc EXCEPT ![p] = NoCall]
    /\ UNCHANGED <<mutex, dbFile, cfgFile, configFile, tmpDir, lastStore, world>>
    /\ UNCHANGED codecVars

(***************************************************************************)
(* generateTemporaryMumbleCertificate                                      *)
(***************************************************************************)

CallGenerate(p) ==
    /\ pc[p] = "idle"
    /\ pc' = [pc EXCEPT ![p] = "gen_tempdir"]
    /\ loc' = [loc EXCEPT ![p].op = "generate"]
    /\ UNCHANGED <<mutex, dbFile, cfgFile, configFile, tmpDir, lastStore, world>>
    /\ UNCHANGED codecVars

\* ioutil.TempDir("", "wahay_cert_generation"); on an error the function
\* returns before any clean-up is deferred.
GenTempDir(p) ==
    /\ pc[p] = "gen_tempdir"
    /\ \E ok \in Oks :
        /\ tmpDir' = [tmpDir EXCEPT ![p] = IF ok THEN [exists |-> TRUE, files |-> {}] ELSE NoDir]
        /\ pc' = [pc EXCEPT ![p] = IF ok THEN "gen_cert" ELSE "gen_done"]
        /\ loc' = [loc EXCEPT ![p].err = IF ok THEN "nil" ELSE "tempdir"]
    /\ UNCHANGED <<mutex, dbFile, cfgFile, configFile, lastStore, world>>
    /\ UNCHANGED codecVars

\* genCertInto(cert.pem, key.pem): it may fail before it creates a file, after
\* it created cert.pem, or after it created both.
GenCert(p) ==
    /\ pc[p] = "gen_cert"
    /\ \E o \in { [files |-> {}, err |-> "keygen"],
                  [files |-> {"cert.pem"}, err |-> "encode"],
                  [files |-> {"cert.pem", "key.pem"}, err |-> "encode"],
                  [files |-> {"cert.pem", "key.pem"}, err |-> "nil"] } :
        /\ tmpDir' = [tmpDir EXCEPT ![p].files = o.files]
        /\ pc' = [pc EXCEPT ![p] = IF o.err = "nil" THEN "gen_openssl" ELSE "gen_defer"]
        /\ loc' = [loc EXCEPT ![p].err = o.err]
    /\ UNCHANGED <<mutex, dbFile, cfgFile, configFile, lastStore, world>>
    /\ UNCHANGED codecVars

\* exec.Command("openssl", "pkcs12", ...).Output(): the tool fails, having
\* written its output file or not, or it writes transformed.p12.
GenOpenssl(p) ==
    /\ pc[p] = "gen_openssl"
    /\ \/ \E written \in BOOLEAN :
            /\ tmpDir' = [tmpDir EXCEPT ![p].files =
                              IF written THEN @ \cup {"transformed.p12"} ELSE @]
            /\ pc' = [pc EXCEPT ![p] = "gen_defer"]
            /\ loc' = [loc EXCEPT ![p].err = "openssl"]
       \/ \E d \in P12Data :
            /\ tmpDir' = [tmpDir EXCEPT ![p].files = @ \cup {"transformed.p12"}]
            /\ pc' = [pc EXCEPT ![p] = "gen_read"]
            /\ loc' = [loc EXCEPT ![p].data = d]
    /\ UNCHANGED <<mutex, dbFile, cfgFile, configFile, lastStore, world>>
    /\ UNCHANGED codecVars

\* ioutil.ReadFile(transformed.p12), then return byteArrayUnparse(data), nil
GenRead(p) ==
    /\ pc[p] = "gen_read"
    /\ \E ok \in Oks :
        loc' = [loc EXCEPT ![p].err = IF ok THEN "nil" ELSE "read",
                           ![p].ret = IF ok THEN byteArrayUnparse(loc[p].data) ELSE <<>>]
    /\ pc' = [pc EXCEPT ![p] = "gen_defer"]
    /\ UNCHANGED <<mutex, dbFile, cfgFile, configFile, tmpDir, lastStore, world>>
    /\ UNCHANGED codecVars

\* The deferred os.RemoveAll(dir) runs as the function returns.
GenDefer(p) ==
    /\ pc[p] = "gen_defer"
    /\ tmpDir' = [tmpDir EXCEPT ![p] = osRemoveAll(tmpDir[p])]
    /\ pc' = [pc EXCEPT ![p] = "gen_done"]
    /\ UNCHANGED <<loc, mutex, dbFile, cfgFile, configFile, lastStore, world>>
    /\ UNCHANGED codecVars

\* The caller has the function's result.
GenDone(p) ==
    /\ pc[p] = "gen_done"
    /\ pc' = [pc EXCEPT ![p] = "idle"]
    /\ loc' = [loc EXCEPT ![p] = NoCall]
    /\ UNCHANGED <<mutex, dbFile, cfgFile, configFile, tmpDir, lastStore, world>>
    /\ UNCHANGED codecVars

(***************************************************************************)
(* Specifications                                                          *)
(***************************************************************************)

ClientStep(p) ==
    \/ CallEnsure(p) \/ EcLock(p) \/ EcDirs(p) \/ EcWriteDB(p) \/ EcCreateCfg(p)
    \/ EcWriteCfg(p) \/ EcUnlock(p)
    \/ CallRequest(p) \/ RcParse(p) \/ RcFetch(p) \/ StExists(p) \/ StDecode(p)
    \/ StLoad(p) \/ StWrite(p) \/ StDone(p) \/ RcDone(p)
    \/ CallSave(p) \/ SvCheck(p) \/ SvRead(p) \/ SvWrite(p) \/ SvDone(p)
    \/ CallGenerate(p) \/ GenTempDir(p) \/ GenCert(p) \/ GenOpenssl(p) \/ GenRead(p)
    \/ GenDefer(p) \/ GenDone(p)

\* The client after construction, with no file written yet.
Init ==
    /\ bs = <<>>
    /\ result = <<>>
    /\ text = <<>>
    /\ decoded = <<>>
    /\ cpc = "off"
    /\ pc = [p \in Callers |-> "idle"]
    /\ loc = [p \in Callers |-> NoCall]
    /\ mutex = 0
    /\ dbFile = NoFile
    /\ cfgFile = NoFile
    /\ configFile = ""
    /\ tmpDir = [p \in Callers |-> NoDir]
    /\ lastStore = NoStore
    /\ world = FullWorld

\* One caller: its calls on the client follow one another.
Next == ClientStep(1)

Spec == Init /\ [][Next]_vars

\* Two callers, each calling the client from its own goroutine.
InitConc ==
    /\ bs = <<>>
    /\ result = <<>>
    /\ text = <<>>
    /\ decoded = <<>>
    /\ cpc = "off"
    /\ pc = [p \in Callers |-> "idle"]
    /\ loc = [p \in Callers |-> NoCall]
    /\ mutex = 0
    /\ dbFile = NoFile
    /\ cfgFile = NoFile
    /\ configFile = ""
    /\ tmpDir = [p \in Callers |-> NoDir]
    /\ lastStore = NoStore
    /\ world = QuietWorld

ConcStep(p) ==
    \/ CallEnsure(p) \/ EcLock(p) \/ EcDirs(p) \/ EcWriteDB(p) \/ EcCreateCfg(p)
    \/ EcWriteCfg(p) \/ EcUnlock(p)
    \/ CallRequest(p) \/ RcParse(p) \/ RcFetch(p) \/ StExists(p) \/ StDecode(p)
    \/ StLoad(p) \/ StWrite(p) \/ StDone(p) \/ RcDone(p)
    \/ SvCheck(p) \/ SvRead(p) \/ SvWrite(p) \/ SvDone(p)

NextConc == \E p \in Callers : ConcStep(p)

SpecConc == InitConc /\ [][NextConc]_vars

(***************************************************************************)
(* Properties                                                              *)
(***************************************************************************)

\* C1: decoding the encoding of a byte sequence gives the byte sequence back.
RoundTrip == cpc = "decoded" => decoded = bs

\* A decoded input in which a hexadecimal digit follows a one-digit escape: {1, '1'}.
RoundTripWitness == cpc = "decoded" /\ bs = <<1, 49>> /\ decoded = <<1, 49>>

\* A fragment that is a \x escape, and the NUL escape.
isHexEscape(f) == Len(f) >= 3 /\ SubSeq(f, 1, 2) = backslashX
nulEscape == specialEscapes[0]

\* C9: a hexadecimal-digit byte is emitted as a \x escape exactly when the
\* byte before it was emitted as a \x escape or as \0, and as its literal
\* character otherwise; so no \x escape and no \0 is directly followed by a
\* literal hexadecimal digit; {0xAB, '1'} encodes as \xab\x31.
HexDisambiguation ==
    cpc \in {"encoded", "decoded"} =>
        /\ Len(result) = Len(bs) + 2
        /\ \A i \in 1..Len(bs) :
            LET frag == result[i + 1]
                forced == i > 1 /\ (isHexEscape(result[i]) \/ result[i] = nulEscape)
            IN  /\ byteArrayIsHex(bs[i]) =>
                      /\ isHexEscape(frag) <=> forced
                      /\ ~forced => frag = <<bs[i]>>
                /\ forced => ~(Len(frag) = 1 /\ byteArrayIsHex(frag[1]))
        /\ bs = <<171, 49>> => text = Bytes("@ByteArray(\\xab\\x31)")

\* The encoding of {0xAB, '1'}, and of a digit after NUL, are there.
HexDisambiguationWitness ==
    /\ cpc = "encoded"
    /\ bs = <<0, 49>>
    /\ text = Bytes("@ByteArray(\\0\\x31)")

\* C2: a second storeCertificate with the host, the port and a valid
\* certificate of a first one that succeeded reports success and leaves the
\* database as the first one left it (no I/O fault in either call).
IdempotentStore ==
    \A p \in Callers :
        ( /\ pc[p] = "st_done"
          /\ lastStore.valid
          /\ lastStore.hostname = loc[p].hostname
          /\ lastStore.port = loc[p].port
          /\ ~isInvalidCertificate(loc[p].body)
          /\ ~loc[p].fault )
        => (loc[p].storeErr = "nil" /\ dbFile = lastStore.db)

\* Whether one of the three placeholders is absent from a database.
placeholderAbsent(content) ==
    \/ ~stringsContains(content, defaultHostToReplace)
    \/ ~stringsContains(content, defaultDigestToReplace)
    \/ ~stringsContains(content, uint16Bytes(defaultPortToReplace))

\* C3: storeCertificateInDB on a database that lacks a placeholder returns an
\* error and leaves the database file as it was.
PlaceholderAbsentFails ==
    \A p \in Callers :
        (pc[p] = "st_done" /\ loc[p].patched /\ placeholderAbsent(loc[p].dbLoaded))
        => (loc[p].storeErr # "nil" /\ dbFile = File(loc[p].dbLoaded))

\* C4: after a patch or an injection, failed or not, the file holds the
\* complete new content or is what it was before.
AtomicWrites ==
    \A p \in Callers :
        /\ (pc[p] = "st_done" /\ loc[p].patched)
              => (dbFile = File(loc[p].db) \/ dbFile = File(loc[p].dbLoaded))
        /\ pc[p] = "sv_done"
              => \/ cfgFile = loc[p].cfgAtSave
                 \/ cfgFile = File(injectCertificate(loc[p].cfgAtSave.data, loc[p].cert))

\* Where a caller is between the first and the last file access of
\* requestCertificate, or inside EnsureConfiguration.
InFlight ==
    {"ec_dirs", "ec_writedb", "ec_createcfg", "ec_writecfg", "ec_unlock",
     "st_decode", "st_load", "st_write", "st_done", "sv_check", "sv_read", "sv_write"}

\* C5: at most one provisioning operation is in flight on the client: two
\* calls never interleave their reads and writes of the two files.
AtMostOneInFlight == Cardinality({p \in Callers : pc[p] \in InFlight}) <= 1

\* C6: storeCertificate on bytes with no PEM block, or with a block that is no
\* CERTIFICATE, returns the invalid-certificate error and leaves the database
\* as it was, whatever the host and the database.
InvalidCertificateRejected ==
    \A p \in Callers :
        (pc[p] = "st_done" /\ isInvalidCertificate(loc[p].body))
        => (loc[p].storeErr = "invalid certificate" /\ dbFile = loc[p].dbAtCall)

tokenCount(content) ==
    Cardinality({j \in 1..Len(content) : hasAt(content, certificateToken, j)})

\* C8: a successful saveCertificateConfigFile replaces the first token with
\* certificate=<literal>: what is before the first token and what is after it
\* are unchanged, the k-1 later tokens with it; a content with no token is
\* written back unchanged.
InjectsFirstTokenOnly ==
    \A p \in Callers :
        (pc[p] = "sv_done" /\ loc[p].err = "nil") =>
            LET before == loc[p].content
                after == cfgFile.data
                k == tokenCount(before)
                n == Len(certificateToken)
            IN  IF k = 0 THEN after = before
                ELSE \E i \in 1..Len(before) :
                        /\ hasAt(before, certificateToken, i)
                        /\ \A j \in 1..(i - 1) : ~hasAt(before, certificateToken, j)
                        /\ after = SubSeq(before, 1, i - 1) \o certificateKey
                                       \o loc[p].cert \o SubSeq(before, i + n, Len(before))
                        /\ tokenCount(SubSeq(before, i + n, Len(before))) = k - 1

\* An injection into a configuration with two tokens: one is left.
InjectsFirstTokenOnlyWitness ==
    /\ pc[1] = "sv_done"
    /\ loc[1].err = "nil"
    /\ tokenCount(loc[1].content) = 2
    /\ tokenCount(cfgFile.data) = 1

\* Whether s is a prefix of t.
isPrefix(s, t) == Len(s) <= Len(t) /\ SubSeq(t, 1, Len(s)) = s

\* C10: requestCertificate runs address parsing, one fetch, the store and the
\* injection in this order, each at most once; once a step has failed the call
\* is at its return with an error, the failed step is the last one it ran, and
\* the configuration file is as it was unless the injection is what failed.
AbortsWithoutRetry ==
    \A p \in Callers :
        loc[p].op = "request" =>
            /\ isPrefix(loc[p].trace, <<"parse", "fetch", "store", "inject">>)
            /\ loc[p].failedAt # "none" =>
                  /\ pc[p] = "rc_done"
                  /\ loc[p].err # "nil"
                  /\ loc[p].trace # <<>>
                  /\ loc[p].trace[Len(loc[p].trace)] = loc[p].failedAt
                  /\ loc[p].failedAt # "inject" => cfgFile = loc[p].cfgAtCall

\* A call that returns after its database write failed, with the
\* configuration file holding a token still.
AbortsWithoutRetryWitness ==
    /\ pc[1] = "rc_done"
    /\ loc[1].failedAt = "store"
    /\ loc[1].storeErr = "write"
    /\ loc[1].trace = <<"parse", "fetch", "store">>
    /\ tokenCount(cfgFile.data) >= 1
====
